---- MODULE Spec2Model ----
(***************************************************************************)
(* Model of Splunk_Notification_3.py: the Streamlit host script and the    *)
(* routine send_automated_emails.  The uploaded table, the credentials of  *)
(* the .env file and the CC field are the inputs; the relay's answers      *)
(* (connection, login, each send) are nondeterministic.                    *)
(***************************************************************************)
EXTENDS Integers, Sequences, FiniteSets, TLC

\* ---- bounds of the model ------------------------------------------------
MaxRows == 2
MaxSite == 2

\* ---- values of the input table -------------------------------------------
\* A missing Site Number (pandas NaN); real site numbers are 1..MaxSite.
NaN == 0

SiteNumbers == (1..MaxSite) \cup {NaN}

\* DOWNLOAD cells are strings, modelled as sequences of characters.
DownloadValues == { <<"Y", "E", "S">>, <<"y", "e", "s">>, <<"n", "o">> }

\* SDA Status cells: the token, and a status that differs from it only in case.
StatusValues == { "CREATION SUCCESSFUL", "creation successful" }

\* The Email cell of the i-th row of the table.
EmailOf(i) == "u" \o ToString(i) \o "@x.com"

RowValues == [site : SiteNumbers, download : DownloadValues, status : StatusValues]

\* A table of n rows: the columns Site Number, DOWNLOAD, SDA Status, Email.
MakeTable(n, f) ==
    [i \in 1..n |-> [site     |-> f[i].site,
                     download |-> f[i].download,
                     status   |-> f[i].status,
                     email    |-> EmailOf(i)]]

Tables == UNION { { MakeTable(n, f) : f \in [1..n -> RowValues] } : n \in 0..MaxRows }

required_columns == { "Site Number", "DOWNLOAD", "SDA Status", "Email" }

\* The column sets of the uploaded file: complete, or one required column missing.
ColumnSets == { required_columns } \cup { required_columns \ {c} : c \in required_columns }

missing_cols(cols) == { c \in required_columns : c \notin cols }

\* ---- pure helpers of send_automated_emails -------------------------------
\* str.upper() on one character.
UpperChar(c) ==
    CASE c = "y" -> "Y"
      [] c = "e" -> "E"
      [] c = "s" -> "S"
      [] c = "n" -> "N"
      [] c = "o" -> "O"
      [] OTHER   -> c

\* Series.str.upper() on one cell.
StrUpper(s) == [i \in DOMAIN s |-> UpperChar(s[i])]

RECURSIVE SortedSeq(_)
SortedSeq(S) ==
    IF S = {} THEN <<>>
    ELSE LET m == CHOOSE x \in S : \A y \in S : x <= y
         IN  <<m>> \o SortedSeq(S \ {m})

RowIndices(d) == [i \in 1..Len(d) |-> i]

\* The keys in the order of their first occurrence in the table.
RECURSIVE FirstOccurrenceSeq(_, _)
FirstOccurrenceSeq(d, seen) ==
    IF d = <<>> THEN <<>>
    ELSE IF Head(d).site = NaN \/ Head(d).site \in seen
         THEN FirstOccurrenceSeq(Tail(d), seen)
         ELSE <<Head(d).site>> \o FirstOccurrenceSeq(Tail(d), seen \cup {Head(d).site})

GroupKeysFirstOccurrence(d) == FirstOccurrenceSeq(d, {})

\* The keys df.groupby('Site Number') iterates: NaN keys are dropped
\* (dropna=True) and the keys are sorted (sort=True).
GroupKeys(d) == SortedSeq({ d[i].site : i \in 1..Len(d) } \ {NaN})

\* The rows (by position in the table, in table order) of the group of key k.
GroupRows(d, k) == SelectSeq(RowIndices(d), LAMBDA i : d[i].site = k)

\* df.groupby('Site Number'): the sequence of (site_number, site_df).
GroupBy(d) ==
    [g \in 1..Len(GroupKeys(d)) |->
        [site_number |-> GroupKeys(d)[g], rows |-> GroupRows(d, GroupKeys(d)[g])]]

IsSkippedNoUpper(d, rows) ==
    \E j \in 1..Len(rows) : d[rows[j]].download = <<"Y", "E", "S">>

\* LOGIC 1: 'YES' in site_df['DOWNLOAD'].astype(str).str.upper().unique()
IsSkipped(d, rows) ==
    \E j \in 1..Len(rows) : StrUpper(d[rows[j]].download) = <<"Y", "E", "S">>

IsAnyoneRegisteredWholeTable(d, rows) ==
    \E i \in 1..Len(d) : d[i].status = "CREATION SUCCESSFUL"

\* 'CREATION SUCCESSFUL' in site_df['SDA Status'].unique()
IsAnyoneRegistered(d, rows) ==
    \E j \in 1..Len(rows) : d[rows[j]].status = "CREATION SUCCESSFUL"

SubjectSwapped(anyone, status) ==
    IF anyone
    THEN IF status = "CREATION SUCCESSFUL"
         THEN "Action Required: Please Complete Your Registration"
         ELSE "Reminder: Please Download Your File"
    ELSE "Action Required: Please Register"

\* LOGIC 2 and LOGIC 3: the subject of the message of one row.
Subject(anyone, status) ==
    IF anyone
    THEN IF status = "CREATION SUCCESSFUL"
         THEN "Reminder: Please Download Your File"
         ELSE "Action Required: Please Complete Your Registration"
    ELSE "Action Required: Please Register"

\* ---- log lines and exceptions --------------------------------------------
\* One line on log_container.  site and row tell which group and which row of
\* the table the line is about (0 when it is about none).
Line(level, tag, site, row, to, subject, detail) ==
    [level |-> level, tag |-> tag, site |-> site, row |-> row,
     to |-> to, subject |-> subject, detail |-> detail]

Plain(level, tag) == Line(level, tag, 0, 0, "", "", "")

NoExc == [kind |-> "none", detail |-> "", k |-> 0]

\* An exception in flight; k is the number of the message whose send raised it
\* (0 when it was not raised by a send).
Exc(kind, detail, k) == [kind |-> kind, detail |-> detail, k |-> k]

SendErrors == { "SMTPRecipientsRefused", "SMTPServerDisconnected" }

HandlerLineAlwaysUnexpected(e) ==
    Line("error", "[UNEXPECTED ERROR]", 0, 0, "", "", e.detail)

HandlerLineNoDetail(e) ==
    IF e.kind = "SMTPAuthenticationError"
    THEN Plain("error", "[AUTHENTICATION ERROR]")
    ELSE Plain("error", "[UNEXPECTED ERROR]")

\* The line the except clauses log for exception e.
HandlerLine(e) ==
    IF e.kind = "SMTPAuthenticationError"
    THEN Plain("error", "[AUTHENTICATION ERROR]")
    ELSE Line("error", "[UNEXPECTED ERROR]", 0, 0, "", "", e.detail)

\* ---- state ----------------------------------------------------------------
VARIABLES
    sender_email,          \* os.getenv("SENDER_EMAIL"); "" when absent
    sender_password,       \* os.getenv("SENDER_PASSWORD"); "" when absent
    cc_email,              \* the sidebar's text input
    columns,               \* the columns of the file the user has chosen
    df,                    \* its rows
    uploaded,              \* "none", "loaded" or "error"
    ui,                    \* what st.error / st.info show on the page
    invoked,               \* send_automated_emails has been called
    pc,                    \* position inside send_automated_emails
    smtp,                  \* the mail session: "none", "open", "authed", "closed"
    opens,                 \* sessions opened in this run
    closes,                \* sessions closed in this run
    gi,                    \* position of the outer for loop in GroupBy(df)
    ri,                    \* position of the inner for loop in the group's rows
    is_anyone_registered,
    exc,                   \* the exception in flight or handled, NoExc if none
    log,                   \* the lines on log_container, in order
    sent                   \* the messages handed to smtp.send_message, in order

vars == <<sender_email, sender_password, cc_email, columns, df, uploaded, ui,
          invoked, pc, smtp, opens, closes, gi, ri, is_anyone_registered,
          exc, log, sent>>

inputs == <<sender_email, sender_password, cc_email, columns, df>>

shell == <<uploaded, ui, invoked>>

CredsMissing == sender_email = "" \/ sender_password = ""

\* Lines 85-88: the page reports whether the credentials were found.
CredsBanner ==
    IF CredsMissing
    THEN [level |-> "error", tag |-> "Email credentials not found", cols |-> {}]
    ELSE [level |-> "info", tag |-> "Email credentials loaded", cols |-> {}]

Init ==
    /\ sender_email \in { "", "bot@gmail.com" }
    /\ sender_password \in { "", "app-password" }
    /\ cc_email \in { "", "boss@x.com" }
    /\ columns \in ColumnSets
    /\ df \in Tables
    /\ uploaded = "none"
    /\ ui = { CredsBanner }
    /\ invoked = FALSE
    /\ pc = "idle"
    /\ smtp = "none"
    /\ opens = 0
    /\ closes = 0
    /\ gi = 1
    /\ ri = 1
    /\ is_anyone_registered = FALSE
    /\ exc = NoExc
    /\ log = <<>>
    /\ sent = <<>>

run == <<pc, smtp, opens, closes, gi, ri, is_anyone_registered, exc, log, sent>>

\* ---- the host script ------------------------------------------------------
\* Lines 102-118: the file is read; missing required columns are reported.
UploadOk ==
    /\ uploaded = "none"
    /\ uploaded' = "loaded"
    /\ ui' = IF missing_cols(columns) # {}
             THEN ui \cup { [level |-> "error", tag |-> "missing required columns",
                             cols |-> missing_cols(columns)] }
             ELSE ui
    /\ UNCHANGED <<inputs, invoked, run>>

\* Lines 103-108, 129-130: reading the file raises.
UploadFails ==
    /\ uploaded = "none"
    /\ uploaded' = "error"
    /\ ui' = ui \cup { [level |-> "error", tag |-> "error while processing the file",
                        cols |-> {}] }
    /\ UNCHANGED <<inputs, invoked, run>>

PressButtonNoCredsCheck ==
    /\ uploaded = "loaded"
    /\ missing_cols(columns) = {}
    /\ pc \in { "idle", "done" }
    /\ invoked' = TRUE
    /\ pc' = "connect"
    /\ smtp' = "none"
    /\ opens' = 0
    /\ closes' = 0
    /\ gi' = 1
    /\ ri' = 1
    /\ is_anyone_registered' = FALSE
    /\ exc' = NoExc
    /\ log' = <<>>
    /\ sent' = <<>>
    /\ UNCHANGED <<inputs, uploaded, ui>>

\* Lines 117-127: the button exists only when no column is missing; pressing it
\* either reports the missing credentials or calls send_automated_emails.
PressButton ==
    /\ uploaded = "loaded"
    /\ missing_cols(columns) = {}
    /\ pc \in { "idle", "done" }
    /\ IF CredsMissing
       THEN /\ log' = << Plain("error", "Sender email or password is not set") >>
            /\ UNCHANGED <<inputs, shell, pc, smtp, opens, closes, gi, ri,
                           is_anyone_registered, exc, sent>>
       ELSE /\ invoked' = TRUE
            /\ pc' = "connect"
            /\ smtp' = "none"
            /\ opens' = 0
            /\ closes' = 0
            /\ gi' = 1
            /\ ri' = 1
            /\ is_anyone_registered' = FALSE
            /\ exc' = NoExc
            /\ log' = <<>>
            /\ sent' = <<>>
            /\ UNCHANGED <<inputs, uploaded, ui>>

\* ---- send_automated_emails ------------------------------------------------
\* Lines 21-22: the connection is established.
ConnectOk ==
    /\ pc = "connect"
    /\ log' = Append(log, Plain("info", "Establishing secure connection"))
    /\ smtp' = "open"
    /\ opens' = opens + 1
    /\ pc' = "login"
    /\ UNCHANGED <<inputs, shell, closes, gi, ri, is_anyone_registered, exc, sent>>

\* Lines 21-22: SMTP_SSL(...) raises; the with block is never entered.
ConnectFails ==
    /\ pc = "connect"
    /\ log' = Append(log, Plain("info", "Establishing secure connection"))
    /\ exc' = Exc("Exception", "ConnectionRefusedError", 0)
    /\ pc' = "except"
    /\ UNCHANGED <<inputs, shell, smtp, opens, closes, gi, ri, is_anyone_registered, sent>>

\* Lines 23-24, 27: login succeeds, the table is grouped.
LoginOk ==
    /\ pc = "login"
    /\ smtp' = "authed"
    /\ log' = Append(log, Plain("success", "Login successful."))
    /\ gi' = 1
    /\ pc' = "groups"
    /\ UNCHANGED <<inputs, shell, opens, closes, ri, is_anyone_registered, exc, sent>>

\* Line 23: the relay rejects the credentials.
LoginRejected ==
    /\ pc = "login"
    /\ exc' = Exc("SMTPAuthenticationError", "Username and Password not accepted", 0)
    /\ pc' = "exit_with"
    /\ UNCHANGED <<inputs, shell, smtp, opens, closes, gi, ri, is_anyone_registered,
                   log, sent>>

\* Line 23: login raises something else.
LoginFails ==
    /\ pc = "login"
    /\ exc' = Exc("Exception", "SMTPServerDisconnected", 0)
    /\ pc' = "exit_with"
    /\ UNCHANGED <<inputs, shell, smtp, opens, closes, gi, ri, is_anyone_registered,
                   log, sent>>

\* Lines 27-38: the next group of the outer loop, a group that is skipped.
SkipGroup ==
    /\ pc = "groups"
    /\ gi <= Len(GroupBy(df))
    /\ LET g == GroupBy(df)[gi] IN
        /\ IsSkipped(df, g.rows)
        /\ log' = log \o << Line("markdown", "Processing Site", g.site_number, 0, "", "", ""),
                            Line("warning", "No emails will be sent", g.site_number, 0, "", "", "") >>
    /\ gi' = gi + 1
    /\ UNCHANGED <<inputs, shell, pc, smtp, opens, closes, ri, is_anyone_registered,
                   exc, sent>>

\* Lines 27-38: the next group of the outer loop, a group that is processed.
EnterGroup ==
    /\ pc = "groups"
    /\ gi <= Len(GroupBy(df))
    /\ LET g == GroupBy(df)[gi] IN
        /\ ~IsSkipped(df, g.rows)
        /\ log' = Append(log, Line("markdown", "Processing Site", g.site_number, 0, "", "", ""))
        /\ is_anyone_registered' = IsAnyoneRegistered(df, g.rows)
    /\ ri' = 1
    /\ pc' = "rows"
    /\ UNCHANGED <<inputs, shell, smtp, opens, closes, gi, exc, sent>>

\* Line 27: the outer loop is exhausted; the with block is left normally.
GroupsDone ==
    /\ pc = "groups"
    /\ gi > Len(GroupBy(df))
    /\ pc' = "exit_with"
    /\ UNCHANGED <<inputs, shell, smtp, opens, closes, gi, ri, is_anyone_registered,
                   exc, log, sent>>

\* Lines 41-61: the message of row i of the table.
BuildMessage(i) ==
    [row     |-> i,
     site    |-> df[i].site,
     from    |-> sender_email,
     to      |-> df[i].email,
     cc      |-> cc_email,
     subject |-> Subject(is_anyone_registered, df[i].status)]

\* Lines 40-64: one row of the inner loop, the send succeeds.
SendRowOk ==
    /\ pc = "rows"
    /\ LET g   == GroupBy(df)[gi]
           msg == BuildMessage(g.rows[ri])
       IN  /\ sent' = Append(sent, msg)
           /\ log' = Append(log, Line("success", "Email sent", msg.site, msg.row,
                                      msg.to, msg.subject, ""))
           /\ IF ri < Len(g.rows)
              THEN ri' = ri + 1 /\ UNCHANGED <<gi, pc>>
              ELSE gi' = gi + 1 /\ pc' = "groups" /\ UNCHANGED ri
    /\ UNCHANGED <<inputs, shell, smtp, opens, closes, is_anyone_registered, exc>>

\* Lines 40-63: one row of the inner loop, smtp.send_message raises.
SendRowFails ==
    /\ pc = "rows"
    /\ \E e \in SendErrors : exc' = Exc("Exception", e, Len(sent) + 1)
    /\ pc' = "exit_with"
    /\ UNCHANGED <<inputs, shell, smtp, opens, closes, gi, ri, is_anyone_registered,
                   log, sent>>

ExitWithNoClose ==
    /\ pc = "exit_with"
    /\ pc' = IF exc = NoExc THEN "finally" ELSE "except"
    /\ UNCHANGED <<inputs, shell, smtp, opens, closes, gi, ri, is_anyone_registered,
                   exc, log, sent>>

\* Line 22: leaving the with block closes the session, on every path.
ExitWith ==
    /\ pc = "exit_with"
    /\ smtp' = "closed"
    /\ closes' = closes + 1
    /\ pc' = IF exc = NoExc THEN "finally" ELSE "except"
    /\ UNCHANGED <<inputs, shell, opens, gi, ri, is_anyone_registered, exc, log, sent>>

ExceptThenReturn ==
    /\ pc = "except"
    /\ log' = Append(log, HandlerLine(exc))
    /\ pc' = "done"
    /\ UNCHANGED <<inputs, shell, smtp, opens, closes, gi, ri, is_anyone_registered,
                   exc, sent>>

\* Lines 66-69: the except clauses.
Except ==
    /\ pc = "except"
    /\ log' = Append(log, HandlerLine(exc))
    /\ pc' = "finally"
    /\ UNCHANGED <<inputs, shell, smtp, opens, closes, gi, ri, is_anyone_registered,
                   exc, sent>>

\* Lines 70-72: the finally clause.
Finally ==
    /\ pc = "finally"
    /\ log' = Append(log, Plain("info", "--- Email sending process finished ---"))
    /\ pc' = "done"
    /\ UNCHANGED <<inputs, shell, smtp, opens, closes, gi, ri, is_anyone_registered,
                   exc, sent>>

\* The steps of send_automated_emails once it has been called.
Dispatch ==
    \/ ConnectOk \/ ConnectFails
    \/ LoginOk \/ LoginRejected \/ LoginFails
    \/ SkipGroup \/ EnterGroup \/ GroupsDone
    \/ SendRowOk \/ SendRowFails
    \/ ExitWith \/ Except \/ Finally

Next ==
    \/ UploadOk
    \/ UploadFails
    \/ PressButton
    \/ ConnectOk
    \/ ConnectFails
    \/ LoginOk
    \/ LoginRejected
    \/ LoginFails
    \/ SkipGroup
    \/ EnterGroup
    \/ GroupsDone
    \/ SendRowOk
    \/ SendRowFails
    \/ ExitWith
    \/ Except
    \/ Finally

Spec == Init /\ [][Next]_vars

\* The routine runs on one thread and every blocking call returns or raises:
\* once called, it keeps taking steps until it returns.
FairSpec == Spec /\ WF_vars(Dispatch)

\* ---- vocabulary of the properties ------------------------------------------
LowerChar(c) ==
    CASE c = "Y" -> "y"
      [] c = "E" -> "e"
      [] c = "S" -> "s"
      [] c = "N" -> "n"
      [] c = "O" -> "o"
      [] OTHER   -> c

EqualsIgnoreCase(a, b) ==
    /\ Len(a) = Len(b)
    /\ \A i \in 1..Len(a) : LowerChar(a[i]) = LowerChar(b[i])

\* The rows of the table whose Site Number is s.
SiteRows(s) == { i \in 1..Len(df) : df[i].site = s }

\* Some row of site s has downloaded.
SiteHasDownload(s) ==
    \E i \in SiteRows(s) : EqualsIgnoreCase(df[i].download, <<"y", "e", "s">>)

\* Some row of site s is registered.
SiteHasRegistered(s) ==
    \E i \in SiteRows(s) : df[i].status = "CREATION SUCCESSFUL"

\* The positions in sent of the messages built from row i.
MessagesOf(i) == { n \in 1..Len(sent) : sent[n].row = i }

LinesTagged(tag) == { n \in 1..Len(log) : log[n].tag = tag }

FinishedLine == Plain("info", "--- Email sending process finished ---")

Running == pc \in { "connect", "login", "groups", "rows", "exit_with", "except", "finally" }

\* ---- C1 -------------------------------------------------------------------
\* C1: if any row of a site has a DOWNLOAD value equal to "YES" ignoring case,
\* no message of the run is built from a row of that site, whatever the SDA
\* Status values of the site are.
C1_SkipRule ==
    \A n \in 1..Len(sent) : ~SiteHasDownload(sent[n].site)

\* A run has ended without failure; a site with a registered row and a
\* lower-case "yes" got nothing while another site got a message.
C1_Witness ==
    /\ pc = "done"
    /\ exc = NoExc
    /\ sent # <<>>
    /\ \E s \in 1..MaxSite :
        /\ SiteHasRegistered(s)
        /\ \E i \in SiteRows(s) : df[i].download = <<"y", "e", "s">>
        /\ \A n \in 1..Len(sent) : sent[n].site # s

\* ---- C2 -------------------------------------------------------------------
\* What C2 asks of every row of a site that is not skipped and has a
\* registered row.
MixedRuleHolds ==
    \A s \in 1..MaxSite :
        (~SiteHasDownload(s) /\ SiteHasRegistered(s)) =>
            \A i \in SiteRows(s) :
                /\ MessagesOf(i) # {}
                /\ \A n \in MessagesOf(i) :
                    /\ sent[n].to = df[i].email
                    /\ sent[n].subject =
                         IF df[i].status = "CREATION SUCCESSFUL"
                         THEN "Reminder: Please Download Your File"
                         ELSE "Action Required: Please Complete Your Registration"

\* C2 as stated: in a finished run in which no send has failed, every row of a
\* non-skipped site with a registered row has been sent the reminder (if
\* registered itself) or the complete-registration message (otherwise).
C2_AsStated ==
    (pc = "done" /\ exc.k = 0) => MixedRuleHolds

\* C2 amended: the same, in a finished run in which the connection, the login
\* and every send have succeeded.
C2_MixedRule ==
    (pc = "done" /\ exc = NoExc) => MixedRuleHolds

\* A finished run without failure over a site with one registered and one
\* unregistered row: both messages are out.
C2_Witness ==
    /\ pc = "done"
    /\ exc = NoExc
    /\ \E s \in 1..MaxSite :
        /\ ~SiteHasDownload(s)
        /\ \E i, j \in SiteRows(s) :
            /\ df[i].status = "CREATION SUCCESSFUL"
            /\ df[j].status # "CREATION SUCCESSFUL"
            /\ \E n \in MessagesOf(i) : sent[n].subject = "Reminder: Please Download Your File"
            /\ \E n \in MessagesOf(j) :
                sent[n].subject = "Action Required: Please Complete Your Registration"

\* ---- C3 -------------------------------------------------------------------
\* What C3 asks of every row of a site that is not skipped and has no
\* registered row.
UnregisteredRuleHolds ==
    \A s \in 1..MaxSite :
        (~SiteHasDownload(s) /\ ~SiteHasRegistered(s)) =>
            \A i \in SiteRows(s) :
                /\ Cardinality(MessagesOf(i)) = 1
                /\ \A n \in MessagesOf(i) :
                    /\ sent[n].to = df[i].email
                    /\ sent[n].subject = "Action Required: Please Register"

\* C3 as stated: in a finished run in which no send has failed, every row of a
\* non-skipped site without a registered row has been sent exactly one
\* message, with the subject "Action Required: Please Register".
C3_AsStated ==
    (pc = "done" /\ exc.k = 0) => UnregisteredRuleHolds

\* C3 amended: the same, in a finished run in which the connection, the login
\* and every send have succeeded.
C3_UnregisteredRule ==
    (pc = "done" /\ exc = NoExc) => UnregisteredRuleHolds

\* A finished run without failure over a table in which one site has a
\* registered row and another, unskipped, has none and got "Please Register".
C3_Witness ==
    /\ pc = "done"
    /\ exc = NoExc
    /\ \E s, t \in 1..MaxSite :
        /\ s # t
        /\ SiteHasRegistered(t)
        /\ SiteRows(s) # {}
        /\ ~SiteHasDownload(s)
        /\ ~SiteHasRegistered(s)
        /\ \A i \in SiteRows(s) :
            \E n \in MessagesOf(i) : sent[n].subject = "Action Required: Please Register"

\* ---- C4 -------------------------------------------------------------------
\* The groups of the iteration that contain row i.
GroupsOf(i) ==
    { g \in 1..Len(GroupBy(df)) :
        \E j \in 1..Len(GroupBy(df)[g].rows) : GroupBy(df)[g].rows[j] = i }

\* C4: while send_automated_emails iterates the groups, every row of the
\* table, a row without Site Number included, is in exactly one group.
C4_Partition ==
    pc \in { "groups", "rows" } =>
        \A i \in 1..Len(df) : Cardinality(GroupsOf(i)) = 1

\* ---- C5 -------------------------------------------------------------------
\* C5: every call of send_automated_emails returns, and when it has returned
\* the "process finished" line is on the log exactly once, as its last line;
\* it is not on the log before.
C5_FinishedLine ==
    /\ [](pc = "done" =>
            /\ log # <<>>
            /\ log[Len(log)] = FinishedLine
            /\ Cardinality({ n \in 1..Len(log) : log[n] = FinishedLine }) = 1)
    /\ [](Running => \A n \in 1..Len(log) : log[n] # FinishedLine)
    /\ (pc = "connect" ~> pc = "done")

\* A call has returned after a send raised.
C5_Witness ==
    /\ pc = "done"
    /\ exc.k > 0
    /\ log[Len(log)] = FinishedLine

\* ---- C6 -------------------------------------------------------------------
\* C6: once the relay has rejected the credentials, no message is sent, no
\* group is processed, no "[UNEXPECTED ERROR]" line is logged, and the call
\* returns with exactly one "[AUTHENTICATION ERROR]" line on the log.
C6_AuthFailure ==
    exc.kind = "SMTPAuthenticationError" =>
        /\ sent = <<>>
        /\ LinesTagged("Processing Site") = {}
        /\ LinesTagged("Email sent") = {}
        /\ LinesTagged("[UNEXPECTED ERROR]") = {}
        /\ pc \in { "finally", "done" } =>
              Cardinality(LinesTagged("[AUTHENTICATION ERROR]")) = 1

\* A call over a table with a site that would have got mail has returned after
\* the relay rejected the credentials.
C6_Witness ==
    /\ pc = "done"
    /\ exc.kind = "SMTPAuthenticationError"
    /\ \E s \in 1..MaxSite : SiteRows(s) # {} /\ ~SiteHasDownload(s)

\* ---- C7 -------------------------------------------------------------------
\* The success lines of the log, in order.
SuccessLines == SelectSeq(log, LAMBDA l : l.tag = "Email sent")

\* C7: once the send of the k-th message has raised, exactly the k-1 earlier
\* messages are sent and each has its success line; they stay so until the
\* call returns, and the call returns with exactly one "[UNEXPECTED ERROR]"
\* line, which carries the error's description.
C7_AbortOnError ==
    /\ [](exc.k > 0 =>
            /\ Len(sent) = exc.k - 1
            /\ Len(SuccessLines) = Len(sent)
            /\ \A n \in 1..Len(sent) :
                /\ SuccessLines[n].row = sent[n].row
                /\ SuccessLines[n].to = sent[n].to
                /\ SuccessLines[n].subject = sent[n].subject
            /\ LinesTagged("[AUTHENTICATION ERROR]") = {}
            /\ pc \in { "finally", "done" } =>
                  /\ Cardinality(LinesTagged("[UNEXPECTED ERROR]")) = 1
                  /\ \A n \in LinesTagged("[UNEXPECTED ERROR]") : log[n].detail = exc.detail)
    /\ [][(exc.k > 0 /\ exc' = exc) => (sent' = sent /\ SuccessLines' = SuccessLines)]_vars

\* A call has returned after its second send raised: one message is out.
C7_Witness ==
    /\ pc = "done"
    /\ exc.k = 2
    /\ Len(sent) = 1

\* ---- C8 -------------------------------------------------------------------
NoDispatch ==
    /\ ~invoked
    /\ pc = "idle"
    /\ smtp = "none"
    /\ opens = 0
    /\ sent = <<>>

\* C8: when the sender address or the sender password is absent the page
\* reports it, when the uploaded table lacks a required column the page names
\* the missing columns, and in both cases send_automated_emails is never
\* called, no session is opened and no message is sent.
C8_ConfigErrors ==
    /\ CredsMissing =>
          [level |-> "error", tag |-> "Email credentials not found", cols |-> {}] \in ui
    /\ (uploaded = "loaded" /\ missing_cols(columns) # {}) =>
          [level |-> "error", tag |-> "missing required columns",
           cols |-> missing_cols(columns)] \in ui
    /\ (CredsMissing \/ missing_cols(columns) # {}) => NoDispatch

\* The button has been pressed over a complete, non-empty table while a
\* credential was absent.
C8_Witness ==
    /\ CredsMissing
    /\ uploaded = "loaded"
    /\ missing_cols(columns) = {}
    /\ df # <<>>
    /\ LinesTagged("Sender email or password is not set") # {}

\* ---- C9 -------------------------------------------------------------------
\* The position of the first row of site s in the table.
FirstRowOf(s) == CHOOSE i \in SiteRows(s) : \A j \in SiteRows(s) : i <= j

\* The sites of the log lines that are about a site, in log order.
SitesLogged == SelectSeq([n \in 1..Len(log) |-> log[n].site], LAMBDA s : s # 0)

\* C9 as stated: a line or message of site A precedes one of site B only if
\* A's first row precedes B's first row in the table.
C9_AsStated ==
    /\ \A m, n \in 1..Len(SitesLogged) :
          (m < n /\ SitesLogged[m] # SitesLogged[n]) =>
              FirstRowOf(SitesLogged[m]) < FirstRowOf(SitesLogged[n])
    /\ \A m, n \in 1..Len(sent) :
          (m < n /\ sent[m].site # sent[n].site) =>
              FirstRowOf(sent[m].site) < FirstRowOf(sent[n].site)

\* C9 amended: the groups are processed in ascending order of Site Number: a
\* line or message of site A precedes one of site B only if A < B.
C9_GroupOrder ==
    /\ \A m, n \in 1..Len(SitesLogged) :
          (m < n /\ SitesLogged[m] # SitesLogged[n]) => SitesLogged[m] < SitesLogged[n]
    /\ \A m, n \in 1..Len(sent) :
          (m < n /\ sent[m].site # sent[n].site) => sent[m].site < sent[n].site

\* A run has ended over a table whose first row is of a higher site than a
\* later row, and both sites got a message.
C9_Witness ==
    /\ pc = "done"
    /\ Len(sent) >= 2
    /\ \E i, j \in 1..Len(df) :
        /\ i < j
        /\ df[i].site > df[j].site
        /\ MessagesOf(i) # {}
        /\ MessagesOf(j) # {}

\* ---- C10 ------------------------------------------------------------------
\* C10: a run opens at most one session; groups are processed and messages
\* sent only while it is authenticated; once opened it is closed exactly once
\* before the handlers and the finally clause run, on every path; no message
\* is sent before login or after the close.
C10_SessionLifecycle ==
    /\ [](/\ opens <= 1
          /\ closes <= opens
          /\ pc \in { "groups", "rows" } => smtp = "authed"
          /\ smtp = "none" <=> opens = 0
          /\ smtp = "closed" <=> closes = 1
          /\ pc \in { "except", "finally", "done" } => closes = opens
          /\ sent # <<>> => smtp \in { "authed", "closed" })
    /\ [][sent' # sent /\ sent' # <<>> => smtp = "authed" /\ smtp' = "authed"]_vars

\* A run that sent a message has returned after a send raised, the session
\* closed.
C10_Witness ==
    /\ pc = "done"
    /\ exc.k > 1
    /\ sent # <<>>
    /\ smtp = "closed"
    /\ opens = 1
    /\ closes = 1
====
